---- MODULE Spec2Model ----
(***************************************************************************)
(* MetroService (src/src/server.ts): the instance-lifecycle manager.       *)
(* One Node.js event loop runs the handlers; every synchronous stretch of  *)
(* a handler between two awaits is one atomic action.                      *)
(***************************************************************************)
EXTENDS Integers, Sequences, FiniteSets, TLC

(* ------------------------------ bounds --------------------------------- *)
\* start requests that may be in flight (past their first await) at once
MaxReq == 2
\* instance objects / child processes that may exist at once
MaxObj == 2
\* tunnel URLs the provider may hand out
MaxUrl == 2
\* how far past the idle threshold the clock runs, ms
MaxSlack == 1
\* calls of getNextPort
MaxAllocs == 2
\* ports of the pool the bounded specifications configure the service with
PoolSize == 2
\* the maxAttempts the bounded specifications call waitForMetroReady with
MaxAttempts == 2

(* ------------------------- program constants --------------------------- *)
PORT_RANGE_START == 8081
PORT_RANGE_END == 8180
METRO_TIMEOUT == 15 * 60 * 1000
BundleSuffix == "/index.bundle?platform=ios&dev=true&minify=false"
\* the longest npm install may run (exec's timeout) and the longest waitForMetroReady
\* may: 30 attempts of a fetch aborted after 2 s and a sleep of 2 s, ms
InstallBudget == 120000
ProbeBudget == 30 * (2000 + 2000)

AppIds == {"app-1", "app-2"}
Reqs == 1..MaxReq
Objs == 1..MaxObj
NoObj == 0

\* the request bodies' files: relative path -> content
DemoFiles == [p \in {"index.js"} |-> "console.log(1)"]
NoFiles == [p \in {} |-> ""]
\* request bodies with different paths
FileSets == {DemoFiles, [p \in {"App.js"} |-> "export default 2"]}

\* the instants the clock is read at: just past the idle threshold (CoarseInstants),
\* or around construction and around the threshold, to the ms (FineInstants)
CoarseInstants == {METRO_TIMEOUT + MaxSlack}
FineInstants == {i + s : i \in {0, METRO_TIMEOUT}, s \in 0..MaxSlack}

VARIABLES
  instances,        \* this.instances: appId -> instance object (NoObj: no entry)
  heap,             \* the MetroInstance objects, by identity
  procs,            \* the ChildProcess of each instance object
  timers,           \* instance objects with a pending force-kill setTimeout
  currentPortIndex, \* this.currentPortIndex
  cleanupInterval,  \* TRUE while the setInterval of the reaper is armed
  exited,           \* TRUE once the service process called process.exit
  tunnels,          \* tunnel URLs opened at the provider and not asked to close
  workspace,        \* WORKSPACE_BASE/<appId>: the directory's files
  req,              \* the startMetro calls in flight: position and locals
  now,              \* the wall clock, ms since construction
  nalloc,           \* calls of getNextPort so far
  last              \* what the latest step returned to its caller (for a sweep: the
                    \* appIds it collected), NoResp when it returned nothing

vars == <<instances, heap, procs, timers, currentPortIndex, cleanupInterval,
          exited, tunnels, workspace, req, now, nalloc, last>>

(* ------------------------------ values --------------------------------- *)
FreeInst == [appId |-> "", port |-> 0, tunnelUrl |-> "", bundleUrl |-> "",
             startTime |-> 0, lastAccess |-> 0, isReady |-> FALSE]
NoProc == [state |-> "none", killed |-> FALSE, sigterm |-> FALSE, sigkill |-> FALSE]
IdleReq == [pc |-> "idle", appId |-> "", files |-> NoFiles, port |-> 0, obj |-> NoObj,
            attempt |-> 0]
NoDir == [exists |-> FALSE, files |-> NoFiles]

Resp(op, appId, success, tunnelUrl, bundleUrl, port, error, entries) ==
  [op |-> op, appId |-> appId, success |-> success, tunnelUrl |-> tunnelUrl,
   bundleUrl |-> bundleUrl, port |-> port, error |-> error, entries |-> entries]
NoResp == Resp("none", "", FALSE, "", "", 0, "", {})
StartOk(a, inst) ==
  Resp("start", a, TRUE, inst.tunnelUrl, inst.bundleUrl, inst.port, "", {})
StartFailed(a, msg) == Resp("start", a, FALSE, "", "", 0, msg, {})

(* ---------------------------- port allocator --------------------------- *)
\* initializePortPool: PORT_RANGE_START..PORT_RANGE_END, ascending
portPool == [i \in 1..(PORT_RANGE_END - PORT_RANGE_START + 1) |-> PORT_RANGE_START + i - 1]

\* the pool cut to its first PoolSize ports, so that a bounded run wraps it
SmallPool == SubSeq(portPool, 1, PoolSize)

\* getNextPort: the port returned with the cursor at c (a JS array is 0-based)
getNextPort(pool, c) == pool[(c % Len(pool)) + 1]
\* getNextPort: the cursor after the call
AdvanceIndex_NoWrap(pool, c) == c + 1
AdvanceIndex_Lost(pool, c) == c
AdvanceIndex(pool, c) == (c + 1) % Len(pool)

(* ------------------------- object bookkeeping -------------------------- *)
\* An instance object lives while something can still reach it (the registry, a
\* startMetro call's local, a force-kill closure) or its child process runs.
Referenced(o, inst, rq, tm) ==
  \/ \E a \in AppIds : inst[a] = o
  \/ \E r \in Reqs : rq[r].obj = o
  \/ o \in tm
Garbage(o, inst, pr, rq, tm) ==
  /\ ~Referenced(o, inst, rq, tm)
  /\ pr[o].state # "running"

Commit(inst, hp, pr, rq, tm) ==
  /\ instances' = inst
  /\ req' = rq
  /\ timers' = tm
  /\ heap' = [o \in Objs |-> IF Garbage(o, inst, pr, rq, tm) THEN FreeInst ELSE hp[o]]
  /\ procs' = [o \in Objs |-> IF Garbage(o, inst, pr, rq, tm) THEN NoProc ELSE pr[o]]

FreeObjs == {o \in Objs : procs[o].state = "none" /\ ~Referenced(o, instances, req, timers)}
NewObj == CHOOSE o \in FreeObjs : \A q \in FreeObjs : o <= q

(* ------------------------------ stopMetro ------------------------------ *)
\* ChildProcess.kill(sig): delivers sig to a running child and sets .killed;
\* on a child that has exited it returns false and changes nothing.
Kill(p, sig) ==
  IF p.state = "running"
  THEN [p EXCEPT !.killed = TRUE,
                 !.sigterm = @ \/ sig = "SIGTERM",
                 !.sigkill = @ \/ sig = "SIGKILL",
                 !.state = IF sig = "SIGKILL" THEN "exited" ELSE @]
  ELSE p

\* The shared state stopMetro touches, as one value.
World == [inst |-> instances, hp |-> heap, pr |-> procs, tm |-> timers, tn |-> tunnels]

\* stopMetro(appId) on world w: the world after it
stopMetro_KeepsTunnel(w, a) ==
  LET o == w.inst[a] IN
  IF o = NoObj THEN w
  ELSE [inst |-> [w.inst EXCEPT ![a] = NoObj],
        hp |-> w.hp,
        pr |-> [w.pr EXCEPT ![o] = Kill(@, "SIGTERM")],
        tm |-> w.tm \cup {o},
        tn |-> w.tn]
stopMetro(w, a) ==
  LET o == w.inst[a] IN
  IF o = NoObj THEN w
  ELSE [inst |-> [w.inst EXCEPT ![a] = NoObj],
        hp |-> w.hp,
        pr |-> [w.pr EXCEPT ![o] = Kill(@, "SIGTERM")],
        tm |-> w.tm \cup {o},
        tn |-> IF w.hp[o].tunnelUrl # "" THEN w.tn \ {w.hp[o].tunnelUrl} ELSE w.tn]

\* stopMetro's return value
stopMetroResult_AlwaysTrue(w, a) == TRUE
stopMetroResult(w, a) == w.inst[a] # NoObj

RECURSIVE stopAll(_, _)
stopAll(w, S) ==
  IF S = {} THEN w
  ELSE LET a == CHOOSE x \in S : TRUE IN stopAll(stopMetro(w, a), S \ {a})

\* what may go wrong inside the try block of stopMetro: process.kill throws, or the
\* promise of ngrok.disconnect rejects
StopFaults == {"none", "kill-throws", "disconnect-rejects"}

\* stopMetro(appId) with fault f striking: a throw of kill skips the rest of the try
\* block (no timer, no disconnect) and is caught; a rejection of disconnect goes to
\* console.error; instances.delete runs in every case
stopMetroFaulty_NoDelete(w, a, f) ==
  IF f = "kill-throws" THEN w ELSE stopMetro(w, a)
stopMetroFaulty(w, a, f) ==
  IF w.inst[a] = NoObj THEN w
  ELSE IF f = "kill-throws" THEN [w EXCEPT !.inst[a] = NoObj]
  ELSE stopMetro(w, a)

RECURSIVE stopAllFaulty(_, _, _)
stopAllFaulty(w, S, F) ==
  IF S = {} THEN w
  ELSE LET a == CHOOSE x \in S : TRUE
       IN stopAllFaulty(stopMetroFaulty(w, a, F[a]), S \ {a}, F)

(* ------------------------------ Init ----------------------------------- *)
Init ==
  /\ instances = [a \in AppIds |-> NoObj]
  /\ heap = [o \in Objs |-> FreeInst]
  /\ procs = [o \in Objs |-> NoProc]
  /\ timers = {}
  /\ currentPortIndex = 0
  /\ cleanupInterval = TRUE
  /\ exited = FALSE
  /\ tunnels = {}
  /\ workspace = [a \in AppIds |-> NoDir]
  /\ req = [r \in Reqs |-> IdleReq]
  /\ now = 0
  /\ nalloc = 0
  /\ last = NoResp

(* ------------------------------ startMetro ----------------------------- *)
InFlight == Cardinality({r \in Reqs : req[r].pc # "idle"})
NewReq == CHOOSE r \in Reqs : req[r].pc = "idle" /\ \A q \in Reqs : req[q].pc = "idle" => r <= q

\* A startMetro call ends: its locals are dropped and `resp` goes to the caller.
Return(r, w, resp) ==
  /\ Commit(w.inst, w.hp, w.pr, [req EXCEPT ![r] = IdleReq], w.tm)
  /\ tunnels' = w.tn
  /\ last' = resp

\* existing.lastAccess = new Date()
Touch_Stale(i) == i
Touch(i) == [i EXCEPT !.lastAccess = now]

\* startMetro up to its first await: the reuse check, then getNextPort and the
\* call of createWorkspace (which runs up to its own first await, fs.rm).
\* cap bounds the allocations, conc the calls in flight; pool is this.portPool.
StartMetro(a, f, cap, conc, pool) ==
  /\ ~exited
  /\ LET o == instances[a]
         hp == IF o # NoObj THEN [heap EXCEPT ![o] = Touch(@)] ELSE heap
     IN IF o # NoObj /\ heap[o].isReady /\ heap[o].tunnelUrl # ""
        THEN /\ Commit(instances, hp, procs, req, timers)
             /\ last' = StartOk(a, hp[o])
             /\ UNCHANGED <<currentPortIndex, nalloc>>
        ELSE /\ nalloc < cap
             /\ InFlight < conc
             /\ Commit(instances, hp, procs,
                       [req EXCEPT ![NewReq] = [pc |-> "rm", appId |-> a, files |-> f,
                                                port |-> getNextPort(pool, currentPortIndex),
                                                obj |-> NoObj, attempt |-> 0]],
                       timers)
             /\ currentPortIndex' = AdvanceIndex(pool, currentPortIndex)
             /\ nalloc' = nalloc + 1
             /\ last' = NoResp
  /\ UNCHANGED <<cleanupInterval, exited, tunnels, workspace, now>>

\* createWorkspace: fs.rm (recursive, force) and fs.mkdir have completed; a failure
\* of fs.rm is swallowed and leaves the directory's files where they were.
CreateWorkspaceRm(r) ==
  /\ ~exited
  /\ req[r].pc = "rm"
  /\ \E removed \in BOOLEAN :
       workspace' = [workspace EXCEPT ![req[r].appId] =
                       [exists |-> TRUE, files |-> IF removed THEN NoFiles ELSE @.files]]
  /\ req' = [req EXCEPT ![r].pc = "write"]
  /\ last' = NoResp
  /\ UNCHANGED <<instances, heap, procs, timers, currentPortIndex, cleanupInterval,
                 exited, tunnels, now, nalloc>>

\* the directory after writing the files of g into it
WriteFiles(dir, g) ==
  [exists |-> TRUE,
   files |-> [p \in DOMAIN dir.files \cup DOMAIN g |->
                IF p \in DOMAIN g THEN g[p] ELSE dir.files[p]]]

\* createWorkspace: the loop over Object.entries(files) has completed.
CreateWorkspaceWrite(r) ==
  /\ ~exited
  /\ req[r].pc = "write"
  /\ workspace' = [workspace EXCEPT ![req[r].appId] = WriteFiles(@, req[r].files)]
  /\ req' = [req EXCEPT ![r].pc = "install"]
  /\ last' = NoResp
  /\ UNCHANGED <<instances, heap, procs, timers, currentPortIndex, cleanupInterval,
                 exited, tunnels, now, nalloc>>

\* createWorkspace throws (mkdir or a write failed, after the files of D were
\* written): startMetro's catch returns the failure.
CreateWorkspaceFails(r) ==
  /\ ~exited
  /\ req[r].pc \in {"rm", "write"}
  /\ \E D \in SUBSET (DOMAIN req[r].files), removed \in BOOLEAN :
       /\ D # DOMAIN req[r].files
       /\ req[r].pc = "rm" => D = {}
       /\ req[r].pc = "write" => removed
       /\ workspace' = [workspace EXCEPT ![req[r].appId] =
                          IF req[r].pc = "rm" THEN (IF removed THEN NoDir ELSE @)
                          ELSE WriteFiles(@, [p \in D |-> req[r].files[p]])]
  /\ Return(r, World, StartFailed(req[r].appId, "createWorkspace failed"))
  /\ UNCHANGED <<currentPortIndex, cleanupInterval, exited, now, nalloc>>

\* installDependencies rejects (npm install failed or timed out): startMetroProcess
\* throws before spawn, startMetro's catch returns the failure.
InstallFails(r) ==
  /\ ~exited
  /\ req[r].pc = "install"
  /\ Return(r, World, StartFailed(req[r].appId, "npm install failed"))
  /\ UNCHANGED <<currentPortIndex, cleanupInterval, exited, workspace, now, nalloc>>

\* installDependencies resolved and spawn throws: startMetro's catch returns the failure.
SpawnThrows(r) ==
  /\ ~exited
  /\ req[r].pc = "install"
  /\ Return(r, World, StartFailed(req[r].appId, "spawn failed"))
  /\ UNCHANGED <<currentPortIndex, cleanupInterval, exited, workspace, now, nalloc>>

\* the MetroInstance literal of startMetro
NewInstance_Ready(a, port) ==
  [appId |-> a, port |-> port, tunnelUrl |-> "", bundleUrl |-> "",
   startTime |-> now, lastAccess |-> now, isReady |-> TRUE]
NewInstance(a, port) ==
  [appId |-> a, port |-> port, tunnelUrl |-> "", bundleUrl |-> "",
   startTime |-> now, lastAccess |-> now, isReady |-> FALSE]

\* installDependencies resolved: spawn, build the instance, instances.set, and
\* enter waitForMetroReady.
Launch(r) ==
  /\ ~exited
  /\ req[r].pc = "install"
  /\ FreeObjs # {}
  /\ LET o == NewObj
         a == req[r].appId
     IN Commit([instances EXCEPT ![a] = o],
               [heap EXCEPT ![o] = NewInstance(a, req[r].port)],
               [procs EXCEPT ![o] = [NoProc EXCEPT !.state = "running"]],
               [req EXCEPT ![r].pc = "probe", ![r].obj = o, ![r].attempt = 1],
               timers)
  /\ last' = NoResp
  /\ UNCHANGED <<currentPortIndex, cleanupInterval, exited, tunnels, workspace,
                 now, nalloc>>

\* GET http://localhost:<port>/status answers 200 when some running child serves port
Serving(port) == \E o \in Objs : procs[o].state = "running" /\ heap[o].port = port

\* what an attempt of waitForMetroReady that does not see a 2xx ran into
ProbeFailures == {"refused", "aborted", "not-ok"}

\* waitForMetroReady: an attempt's response is ok; it returns true and startMetro goes
\* on to createTunnel.
ProbeReady_Blind(r) ==
  /\ ~exited
  /\ req[r].pc = "probe"
  /\ req[r].attempt <= MaxAttempts
  /\ req' = [req EXCEPT ![r].pc = "tunnel", ![r].attempt = 0]
  /\ last' = NoResp
  /\ UNCHANGED <<instances, heap, procs, timers, currentPortIndex, cleanupInterval,
                 exited, tunnels, workspace, now, nalloc>>
ProbeReady(r) ==
  /\ ~exited
  /\ req[r].pc = "probe"
  /\ req[r].attempt <= MaxAttempts
  /\ Serving(req[r].port)
  /\ req' = [req EXCEPT ![r].pc = "tunnel", ![r].attempt = 0]
  /\ last' = NoResp
  /\ UNCHANGED <<instances, heap, procs, timers, currentPortIndex, cleanupInterval,
                 exited, tunnels, workspace, now, nalloc>>

\* waitForMetroReady: an attempt fails (fetch throws: connection refused or aborted
\* after 2 s; or the response is not ok, which takes a listener on the port); the
\* loop sleeps 2 s and goes on to the next attempt.
ProbeRetry(r) ==
  /\ ~exited
  /\ req[r].pc = "probe"
  /\ req[r].attempt <= MaxAttempts
  /\ \E f \in ProbeFailures :
       /\ f = "not-ok" => Serving(req[r].port)
       /\ req' = [req EXCEPT ![r].attempt = @ + 1]
  /\ last' = NoResp
  /\ UNCHANGED <<instances, heap, procs, timers, currentPortIndex, cleanupInterval,
                 exited, tunnels, workspace, now, nalloc>>

\* waitForMetroReady left its loop and returned false: stopMetro(appId) and the
\* failure result.
ProbeTimeout_OneShort(r) ==
  /\ ~exited
  /\ req[r].pc = "probe"
  /\ req[r].attempt >= MaxAttempts
  /\ Return(r, stopMetro(World, req[r].appId),
            StartFailed(req[r].appId, "Metro failed to start within timeout"))
  /\ UNCHANGED <<currentPortIndex, cleanupInterval, exited, workspace, now, nalloc>>
ProbeTimeout(r) ==
  /\ ~exited
  /\ req[r].pc = "probe"
  /\ req[r].attempt > MaxAttempts
  /\ Return(r, stopMetro(World, req[r].appId),
            StartFailed(req[r].appId, "Metro failed to start within timeout"))
  /\ UNCHANGED <<currentPortIndex, cleanupInterval, exited, workspace, now, nalloc>>

\* the URLs ngrok.connect may return: one the provider has not handed out
Url(u) == "https://t" \o ToString(u) \o ".ngrok.io"
FreshUrls == {u \in 1..MaxUrl : Url(u) \notin tunnels
                                 /\ \A o \in Objs : heap[o].tunnelUrl # Url(u)}
NewUrl == Url(CHOOSE u \in FreshUrls : \A v \in FreshUrls : u <= v)

\* the instance after the success branch of startMetro
MarkReady_BareUrl(i, url) == [i EXCEPT !.tunnelUrl = url, !.bundleUrl = url, !.isReady = TRUE]
MarkReady(i, url) ==
  [i EXCEPT !.tunnelUrl = url, !.bundleUrl = url \o BundleSuffix, !.isReady = TRUE]

\* createTunnel returned a URL: the instance is completed and success returned.
TunnelOpened(r) ==
  /\ ~exited
  /\ req[r].pc = "tunnel"
  /\ FreshUrls # {}
  /\ LET o == req[r].obj
         w == [World EXCEPT !.hp = [heap EXCEPT ![o] = MarkReady(@, NewUrl)],
                            !.tn = tunnels \cup {NewUrl}]
     IN Return(r, w, Resp("start", req[r].appId, TRUE, NewUrl, w.hp[o].bundleUrl,
                          req[r].port, "", {}))
  /\ UNCHANGED <<currentPortIndex, cleanupInterval, exited, workspace, now, nalloc>>

\* createTunnel returned null: stopMetro(appId) and the failure result.
TunnelFails(r) ==
  /\ ~exited
  /\ req[r].pc = "tunnel"
  /\ Return(r, stopMetro(World, req[r].appId),
            StartFailed(req[r].appId, "Failed to create ngrok tunnel"))
  /\ UNCHANGED <<currentPortIndex, cleanupInterval, exited, workspace, now, nalloc>>

(* --------------------------- stop, status, list ------------------------ *)
\* DELETE /metro/stop/:appId -> stopMetro(appId)
StopMetro(a) ==
  /\ ~exited
  /\ LET w == stopMetro(World, a)
     IN /\ Commit(w.inst, w.hp, w.pr, req, w.tm)
        /\ tunnels' = w.tn
        /\ last' = Resp("stop", a, stopMetroResult(World, a), "", "", 0, "", {})
  /\ UNCHANGED <<currentPortIndex, cleanupInterval, exited, workspace, now, nalloc>>

\* the object getStatus and listInstances build for one instance
StatusOf(i) ==
  [appId |-> i.appId, port |-> i.port, tunnelUrl |-> i.tunnelUrl,
   bundleUrl |-> i.bundleUrl, isReady |-> i.isReady,
   uptime |-> now - i.startTime, lastAccess |-> now - i.lastAccess]

\* getStatus(appId): null (no entry) or the instance's status
getStatus(a) ==
  IF instances[a] = NoObj THEN {} ELSE {StatusOf(heap[instances[a]])}

\* listInstances(): one status per value of the map
listInstances == {StatusOf(heap[instances[a]]) : a \in {x \in AppIds : instances[x] # NoObj}}

GetStatus_Touch(a) ==
  /\ ~exited
  /\ last' = Resp("status", a, getStatus(a) # {}, "", "", 0, "", getStatus(a))
  /\ heap' = [o \in Objs |-> IF o = instances[a] THEN Touch(heap[o]) ELSE heap[o]]
  /\ UNCHANGED <<instances, procs, timers, currentPortIndex, cleanupInterval,
                 exited, tunnels, workspace, req, now, nalloc>>
GetStatus(a) ==
  /\ ~exited
  /\ last' = Resp("status", a, getStatus(a) # {}, "", "", 0, "", getStatus(a))
  /\ UNCHANGED <<instances, heap, procs, timers, currentPortIndex, cleanupInterval,
                 exited, tunnels, workspace, req, now, nalloc>>

ListInstances ==
  /\ ~exited
  /\ last' = Resp("list", "", TRUE, "", "", 0, "", listInstances)
  /\ UNCHANGED <<instances, heap, procs, timers, currentPortIndex, cleanupInterval,
                 exited, tunnels, workspace, req, now, nalloc>>

(* ------------------------------- reaper -------------------------------- *)
\* the appIds cleanupInactiveInstances collects
inactiveInstances_AtThreshold ==
  {a \in AppIds : /\ instances[a] # NoObj
                  /\ now - heap[instances[a]].lastAccess >= METRO_TIMEOUT}
inactiveInstances ==
  {a \in AppIds : /\ instances[a] # NoObj
                  /\ now - heap[instances[a]].lastAccess > METRO_TIMEOUT}

\* one run of the setInterval callback
CleanupInactiveInstances ==
  /\ ~exited
  /\ cleanupInterval
  /\ LET w == stopAll(World, inactiveInstances)
     IN /\ Commit(w.inst, w.hp, w.pr, req, w.tm)
        /\ tunnels' = w.tn
  /\ last' = Resp("sweep", "", TRUE, "", "", 0, "", inactiveInstances)
  /\ UNCHANGED <<currentPortIndex, cleanupInterval, exited, workspace, now, nalloc>>

\* one run of the setInterval callback, with the faults of F striking its stops
CleanupInactiveInstancesFaulty ==
  /\ ~exited
  /\ cleanupInterval
  /\ \E F \in [AppIds -> StopFaults] :
       LET w == stopAllFaulty(World, inactiveInstances, F)
       IN /\ Commit(w.inst, w.hp, w.pr, req, w.tm)
          /\ tunnels' = w.tn
  /\ last' = Resp("sweep", "", TRUE, "", "", 0, "", inactiveInstances)
  /\ UNCHANGED <<currentPortIndex, cleanupInterval, exited, workspace, now, nalloc>>

(* ------------------------------ shutdown ------------------------------- *)
\* shutdown(): its statements, in program order
shutdownOrder_StopFirst == <<"stopMetro", "ngrok.disconnect", "clearInterval">>
shutdownOrder == <<"clearInterval", "stopMetro", "ngrok.disconnect">>

\* one statement of shutdown() on s = [w: the world, armed: the reaper's interval is
\* armed, log: what each statement so far found when it began]
shutdownStep(s, stmt) ==
  LET registered == {a \in AppIds : s.w.inst[a] # NoObj}
      t == IF stmt = "clearInterval" THEN [s EXCEPT !.armed = FALSE]
           ELSE IF stmt = "stopMetro" THEN [s EXCEPT !.w = stopAll(s.w, registered)]
           ELSE [s EXCEPT !.w.tn = {}]
  IN [t EXCEPT !.log = @ \cup {[at |-> Cardinality(@) + 1, stmt |-> stmt, armed |-> s.armed,
                                 registered |-> registered, open |-> s.w.tn]}]

\* shutdown(): the state it returns in
shutdown ==
  LET s0 == [w |-> World, armed |-> cleanupInterval, log |-> {}]
  IN shutdownStep(shutdownStep(shutdownStep(s0, shutdownOrder[1]), shutdownOrder[2]),
                  shutdownOrder[3])

\* the SIGINT/SIGTERM handler: shutdown(), then process.exit(0), which drops the
\* calls in flight and the pending timers.
Shutdown ==
  /\ ~exited
  /\ LET s == shutdown
     IN /\ Commit(s.w.inst, s.w.hp, s.w.pr, [r \in Reqs |-> IdleReq], {})
        /\ cleanupInterval' = s.armed
        /\ tunnels' = s.w.tn
        /\ last' = Resp("shutdown", "", TRUE, "", "", 0, "", s.log)
  /\ exited' = TRUE
  /\ UNCHANGED <<currentPortIndex, workspace, now, nalloc>>

(* ---------------------------- environment ------------------------------ *)
\* the force-kill timer of stopMetro fires
ForceKill(o) ==
  /\ ~exited
  /\ o \in timers
  /\ Commit(instances, heap,
            IF ~procs[o].killed THEN [procs EXCEPT ![o] = Kill(@, "SIGKILL")] ELSE procs,
            req, timers \ {o})
  /\ last' = NoResp
  /\ UNCHANGED <<currentPortIndex, cleanupInterval, exited, tunnels, workspace,
                 now, nalloc>>

\* a child process exits (by itself, or in answer to SIGTERM)
ProcExit(o) ==
  /\ procs[o].state = "running"
  /\ Commit(instances, heap, [procs EXCEPT ![o].state = "exited"], req, timers)
  /\ last' = NoResp
  /\ UNCHANGED <<currentPortIndex, cleanupInterval, exited, tunnels, workspace,
                 now, nalloc>>

\* time passes, up to instant t; npm install and waitForMetroReady do not outlast
\* their budgets
Tick(t) ==
  /\ ~exited
  /\ t > now
  /\ t - now > InstallBudget => \A r \in Reqs : req[r].pc # "install"
  /\ t - now > ProbeBudget => \A r \in Reqs : req[r].pc # "probe"
  /\ now' = t
  /\ last' = NoResp
  /\ UNCHANGED <<instances, heap, procs, timers, currentPortIndex, cleanupInterval,
                 exited, tunnels, workspace, req, nalloc>>

(* --------------------------- specifications ---------------------------- *)
\* the steps of startMetro calls: at most cap allocations, conc calls in flight,
\* for appIds from A, request bodies with files from F, the port pool being pool
Starts(cap, conc, A, F, pool) ==
  \/ \E a \in A, f \in F : StartMetro(a, f, cap, conc, pool)
  \/ \E r \in Reqs : CreateWorkspaceRm(r)
  \/ \E r \in Reqs : CreateWorkspaceWrite(r)
  \/ \E r \in Reqs : CreateWorkspaceFails(r)
  \/ \E r \in Reqs : InstallFails(r)
  \/ \E r \in Reqs : SpawnThrows(r)
  \/ \E r \in Reqs : Launch(r)
  \/ \E r \in Reqs : ProbeReady(r)
  \/ \E r \in Reqs : ProbeRetry(r)
  \/ \E r \in Reqs : ProbeTimeout(r)
  \/ \E r \in Reqs : TunnelOpened(r)
  \/ \E r \in Reqs : TunnelFails(r)

Stops == \E a \in AppIds : StopMetro(a)

Reads ==
  \/ \E a \in AppIds : GetStatus(a)
  \/ ListInstances

\* the reaper, with the clock advancing through the instants of D
Reaper(D) ==
  \/ CleanupInactiveInstances
  \/ \E t \in D : Tick(t)

\* what happens without a request: timers fire, children exit
Environment ==
  \/ \E o \in Objs : ForceKill(o)
  \/ \E o \in Objs : ProcExit(o)

\* any interleaving of the handlers, with at most MaxReq starts in flight
Next ==
  \/ Starts(MaxAllocs, MaxReq, AppIds, {DemoFiles}, portPool)
  \/ Stops
  \/ Reads
  \/ Reaper(CoarseInstants)
  \/ Environment
  \/ Shutdown
Spec == Init /\ [][Next]_vars

\* one start at a time against stops and the reaper, on a pool of PoolSize ports
\* and with one allocation more than the pool holds
NextWrap ==
  \/ Starts(PoolSize + 1, 1, AppIds, {DemoFiles}, SmallPool)
  \/ Stops
  \/ Reaper(CoarseInstants)
  \/ Environment
SpecWrap == Init /\ [][NextWrap]_vars

\* one start at a time against stops and the reaper, the clock read to the ms
\* around the idle threshold
NextIdle ==
  \/ Starts(MaxAllocs, 1, AppIds, {DemoFiles}, portPool)
  \/ Stops
  \/ Reaper(FineInstants)
  \/ Environment
SpecIdle == Init /\ [][NextIdle]_vars

\* starts of one appId, one at a time, with request bodies that differ in their paths
NextFiles ==
  \/ Starts(MaxAllocs, 1, {"app-1"}, FileSets, portPool)
  \/ Stops
  \/ Environment
SpecFiles == Init /\ [][NextFiles]_vars

\* the appIds in the order their first start requests arrive
AppSeq == <<"app-1", "app-2">>
\* the appId no request has been made for yet
NextApps == IF nalloc < Len(AppSeq) THEN {AppSeq[nalloc + 1]} ELSE {}

\* concurrent starts on a fresh service, one per appId, and nothing else
NextPar ==
  \/ Starts(MaxAllocs, MaxReq, NextApps, {DemoFiles}, portPool)
  \/ Environment
SpecPar == Init /\ [][NextPar]_vars

\* one start at a time against stops; an attempt of waitForMetroReady always ends (its
\* fetch is aborted after 2 s, its sleep is a 2 s timer), so the loop keeps moving
NextProbe ==
  \/ Starts(MaxAllocs, 1, AppIds, {DemoFiles}, portPool)
  \/ Stops
  \/ Environment
SpecProbe ==
  /\ Init
  /\ [][NextProbe]_vars
  /\ \A r \in Reqs : WF_vars(ProbeReady(r) \/ ProbeRetry(r) \/ ProbeTimeout(r))

\* one start at a time against stops and a reaper whose stops may fail
NextFault ==
  \/ Starts(MaxAllocs, 1, AppIds, {DemoFiles}, portPool)
  \/ Stops
  \/ CleanupInactiveInstancesFaulty
  \/ \E t \in CoarseInstants : Tick(t)
  \/ Environment
SpecFault == Init /\ [][NextFault]_vars

(* ------------------------------- claims -------------------------------- *)
\* a child that was launched, still runs and was sent no termination signal
Live(o) == procs[o].state = "running" /\ ~procs[o].sigterm /\ ~procs[o].sigkill
HasRecord(a) == instances[a] # NoObj
ReadyRecord(a) ==
  /\ instances[a] # NoObj
  /\ heap[instances[a]].isReady
  /\ heap[instances[a]].tunnelUrl # ""
\* everything but `last`
service == <<instances, heap, procs, timers, currentPortIndex, cleanupInterval,
             exited, tunnels, workspace, req, now, nalloc>>

\* C1: in every reachable state at most one child process launched for an appId
\* is live (the registry, a map, holds at most one record per appId by construction).
C1_AtMostOneLivePerApp ==
  \A a \in AppIds : Cardinality({o \in Objs : heap[o].appId = a /\ Live(o)}) <= 1

\* C2: in every reachable state no two records of the registry have the same port.
C2_PortsUnique ==
  \A a, b \in AppIds :
    (a # b /\ HasRecord(a) /\ HasRecord(b))
      => heap[instances[a]].port # heap[instances[b]].port

\* C3: in every reachable state, an appId without a record has no child process that
\* still runs without having been sent a termination signal.
C3_AbsentImpliesSignalled ==
  \A a \in AppIds :
    ~HasRecord(a) => \A o \in Objs : heap[o].appId = a => ~Live(o)

\* C4: a start that returns a failure leaves the child it launched (if any) signalled
\* or gone, its record out of the registry and its tunnel closed.
C4_FailedStartCleansUp ==
  [][\A r \in Reqs :
       (/\ req[r].pc # "idle"
        /\ req'[r].pc = "idle"
        /\ last'.op = "start"
        /\ ~last'.success
        /\ req[r].obj # NoObj)
       => (/\ procs'[req[r].obj].state # "running" \/ procs'[req[r].obj].sigterm
           /\ \A a \in AppIds : instances'[a] # req[r].obj
           /\ heap[req[r].obj].tunnelUrl # ""
                => heap[req[r].obj].tunnelUrl \notin tunnels')]_vars

\* C5: while an appId keeps a record, the isReady a status read reports for it never
\* goes from true back to false.
C5_ReadyNeverReset ==
  [][\A a \in AppIds :
       (/\ HasRecord(a)
        /\ heap[instances[a]].isReady
        /\ instances'[a] # NoObj)
       => heap'[instances'[a]].isReady]_vars

\* C6: a start request for an appId whose record is ready returns at once, with
\* success and the record's tunnelUrl, bundleUrl and port, sets the record's
\* lastAccess to the current time and changes nothing else; no such request
\* enters the fresh-start path.
C6_ReuseOnlyTouches ==
  [][\A a \in AppIds :
       ReadyRecord(a) =>
         /\ \A r \in Reqs : (req[r].pc = "idle" /\ req'[r].pc # "idle") => req'[r].appId # a
         /\ (last'.op = "start" /\ last'.appId = a /\ req' = req) =>
              /\ last' = Resp("start", a, TRUE, heap[instances[a]].tunnelUrl,
                              heap[instances[a]].bundleUrl, heap[instances[a]].port, "", {})
              /\ heap' = [heap EXCEPT ![instances[a]].lastAccess = now]
              /\ UNCHANGED <<instances, procs, timers, currentPortIndex, cleanupInterval,
                             exited, tunnels, workspace, req, now, nalloc>>]_vars

\* C6 witness: a single allocation was ever made, and a start has just returned success
\* for a record whose lastAccess is later than its startTime: the reuse path ran.
C6_Witness ==
  /\ nalloc = 1
  /\ last.op = "start"
  /\ last.success
  /\ HasRecord(last.appId)
  /\ heap[instances[last.appId]].lastAccess > heap[instances[last.appId]].startTime
  /\ heap[instances[last.appId]].lastAccess = now

\* C7: stop of an appId without a record returns false and changes nothing; stop of an
\* appId with a record returns true and removes it, and a status of that appId in the
\* very next step reports absent.
C7_StopResult ==
  [][\A a \in AppIds :
       /\ (last'.op = "stop" /\ last'.appId = a /\ ~HasRecord(a))
            => (~last'.success /\ UNCHANGED service)
       /\ (last'.op = "stop" /\ last'.appId = a /\ HasRecord(a))
            => (last'.success /\ instances'[a] = NoObj)
       /\ (last.op = "stop" /\ last.appId = a /\ last.success
             /\ last'.op = "status" /\ last'.appId = a)
            => (~last'.success /\ last'.entries = {})]_vars

\* C7 witness: status has just reported absent for an appId whose stopped instance
\* still has its force-kill timer pending.
C7_Witness ==
  /\ last.op = "status"
  /\ ~last.success
  /\ last.entries = {}
  /\ \E o \in timers : heap[o].appId = last.appId /\ procs[o].sigterm

\* C8: a sweep removes and stops every record idle for more than 15 minutes, and leaves
\* every record idle for 15 minutes or less as it was, with its process and timers.
C8_SweepByThreshold ==
  [][last'.op = "sweep" =>
       \A a \in AppIds :
         HasRecord(a) =>
           IF now - heap[instances[a]].lastAccess > 15 * 60 * 1000
           THEN /\ instances'[a] = NoObj
                /\ procs'[instances[a]].state # "running" \/ procs'[instances[a]].sigterm
           ELSE /\ instances'[a] = instances[a]
                /\ heap'[instances[a]] = heap[instances[a]]
                /\ procs'[instances[a]] = procs[instances[a]]
                /\ (instances[a] \in timers') = (instances[a] \in timers)
                /\ (heap[instances[a]].tunnelUrl \in tunnels')
                     = (heap[instances[a]].tunnelUrl \in tunnels)]_vars

\* C8 witness: a sweep has just collected one appId and left the other, whose record
\* has been idle for exactly the threshold.
C8_Witness ==
  /\ last.op = "sweep"
  /\ \E a, b \in AppIds :
       /\ a \in last.entries
       /\ ~HasRecord(a)
       /\ HasRecord(b)
       /\ now - heap[instances[b]].lastAccess = 15 * 60 * 1000

\* the cursor after k calls of getNextPort with the cursor at c (the calls are
\* split in two halves, and c is compared first, to keep the evaluation shallow)
RECURSIVE CursorAfter(_, _, _)
CursorAfter(pool, c, k) ==
  IF c < 0 \/ k = 0 THEN c
  ELSE IF k = 1 THEN AdvanceIndex(pool, c)
  ELSE CursorAfter(pool, CursorAfter(pool, c, k \div 2), k - (k \div 2))

\* the pool is 8081..8180 ascending, and over two rounds of it the k-th call returns
\* the element at k mod 100
RoundRobinOnPool ==
  /\ Len(portPool) = 100
  /\ \A i \in 1..100 : portPool[i] = 8080 + i
  /\ \A k \in 0..200 : getNextPort(portPool, CursorAfter(portPool, 0, k)) = 8081 + (k % 100)

\* C9: the k-th allocation returns the pool element at k mod poolSize; only an
\* allocation moves the cursor, which stays within 0..poolSize-1.
C9_RoundRobin ==
  /\ RoundRobinOnPool
  /\ [](/\ currentPortIndex = nalloc % PoolSize
        /\ currentPortIndex \in 0..(PoolSize - 1))
  /\ [][/\ nalloc' # nalloc =>
             /\ nalloc' = nalloc + 1
             /\ \E r \in Reqs : /\ req[r].pc = "idle"
                                /\ req'[r].pc # "idle"
                                /\ req'[r].port = PORT_RANGE_START + (nalloc % PoolSize)
        /\ currentPortIndex' # currentPortIndex => nalloc' = nalloc + 1
        /\ (\E r \in Reqs : req[r].pc = "idle" /\ req'[r].pc # "idle")
             => nalloc' = nalloc + 1]_vars

\* C9 witness: after a stop and a sweep, the allocation that follows a full round of the
\* pool has returned the pool's first port again.
C9_Witness ==
  /\ nalloc = PoolSize + 1
  /\ currentPortIndex = 1
  /\ \E r \in Reqs : req[r].pc = "install" /\ req[r].port = PORT_RANGE_START
  /\ \E o \in Objs : procs[o].sigterm
  /\ now > 0

\* C10: status and list change nothing; status reports absent exactly when the appId
\* has no record, and otherwise that record's fields; list reports one entry per record.
C10_ReadsArePure ==
  [][/\ last'.op \in {"status", "list"} => UNCHANGED service
     /\ last'.op = "status" =>
          /\ last'.success = HasRecord(last'.appId)
          /\ (last'.entries = {}) = ~HasRecord(last'.appId)
          /\ \A e \in last'.entries :
               /\ e.appId = last'.appId
               /\ e.port = heap[instances[e.appId]].port
               /\ e.isReady = heap[instances[e.appId]].isReady
               /\ e.tunnelUrl = heap[instances[e.appId]].tunnelUrl
               /\ e.lastAccess = now - heap[instances[e.appId]].lastAccess
               /\ e.uptime = now - heap[instances[e.appId]].startTime
     /\ last'.op = "list" =>
          /\ Cardinality(last'.entries) = Cardinality({a \in AppIds : HasRecord(a)})
          /\ \A a \in AppIds : HasRecord(a) => \E e \in last'.entries : e.appId = a]_vars

\* C10 witness: list has just reported two entries, one of them ready.
C10_Witness ==
  /\ last.op = "list"
  /\ Cardinality(last.entries) = 2
  /\ \E e \in last.entries : e.isReady

\* C11 (as the spec states it): shutdown stops every instance and closes every tunnel
\* while the reaper is still armed, and disables the reaper only after that; afterwards
\* the registry is empty, every child that had a record has been signalled, every
\* tunnel has been asked to close and no sweep runs.
C11_ShutdownThenDisarm ==
  /\ [][last'.op = "shutdown" =>
          /\ \A a \in AppIds : instances'[a] = NoObj
          /\ \A a \in AppIds : HasRecord(a) =>
                (procs'[instances[a]].state # "running" \/ procs'[instances[a]].sigterm)
          /\ tunnels' = {}
          /\ ~cleanupInterval'
          /\ \A e \in last'.entries : e.stmt # "clearInterval" => e.armed]_vars
  /\ [][~cleanupInterval => last'.op # "sweep"]_vars

\* C11 (amended): shutdown disables the reaper first and then stops every instance and
\* closes every tunnel; afterwards the registry is empty, every child that had a record
\* has been signalled, every tunnel has been asked to close and no sweep runs.
C11_DisarmThenShutdown ==
  /\ [][last'.op = "shutdown" =>
          /\ \A a \in AppIds : instances'[a] = NoObj
          /\ \A a \in AppIds : HasRecord(a) =>
                (procs'[instances[a]].state # "running" \/ procs'[instances[a]].sigterm)
          /\ tunnels' = {}
          /\ ~cleanupInterval'
          /\ \A e \in last'.entries : e.stmt # "clearInterval" => ~e.armed
          /\ \E e \in last'.entries : e.stmt = "clearInterval" /\ e.at = 1 /\ e.armed]_vars
  /\ [][~cleanupInterval => last'.op # "sweep"]_vars

\* C11 witness: shutdown has run with both appIds registered and a tunnel open, and a
\* child it signalled still runs.
C11_Witness ==
  /\ last.op = "shutdown"
  /\ \E e \in last.entries : e.stmt = "stopMetro" /\ e.registered = AppIds /\ e.open # {}
  /\ \E o \in Objs : procs[o].state = "running" /\ procs[o].sigterm
  /\ \A a \in AppIds : ~HasRecord(a)

\* C12: on a fresh service the first start, its probe succeeding and the provider
\* returning u, with nothing removing its record meanwhile, returns success with port
\* 8081, tunnelUrl u and bundleUrl u + '/index.bundle?platform=ios&dev=true&minify=false',
\* and leaves exactly one record, for that appId, ready and with the same three values.
C12_FirstStart ==
  [][\A r \in Reqs :
       (/\ nalloc = 1
        /\ req[r].pc = "tunnel"
        /\ instances[req[r].appId] = req[r].obj
        /\ req'[r].pc = "idle"
        /\ last'.op = "start"
        /\ last'.success)
       => LET a == req[r].appId
              u == last'.tunnelUrl
              b == u \o "/index.bundle?platform=ios&dev=true&minify=false"
          IN /\ last'.appId = a
             /\ last'.port = 8081
             /\ u # ""
             /\ u \in tunnels' \ tunnels
             /\ last'.bundleUrl = b
             /\ {x \in AppIds : instances'[x] # NoObj} = {a}
             /\ heap'[instances'[a]].appId = a
             /\ heap'[instances'[a]].isReady
             /\ heap'[instances'[a]].port = 8081
             /\ heap'[instances'[a]].tunnelUrl = u
             /\ heap'[instances'[a]].bundleUrl = b]_vars

\* C12 witness: the only allocation ever made has ended in a success on port 8081, and
\* the record it registered is ready.
C12_Witness ==
  /\ nalloc = 1
  /\ \A r \in Reqs : req[r].pc = "idle"
  /\ last.op = "start"
  /\ last.success
  /\ last.port = 8081
  /\ ReadyRecord(last.appId)
  /\ heap[instances[last.appId]].lastAccess = heap[instances[last.appId]].startTime

\* C13: createWorkspace that runs to completion, with no other createWorkspace of the
\* same directory in between, leaves the directory holding exactly the given files with
\* the given contents, whatever it held before.
C13_ProvisionExact ==
  [][\A r \in Reqs :
       (req[r].pc = "write" /\ req'[r].pc = "install")
       => workspace'[req[r].appId] = [exists |-> TRUE, files |-> req[r].files]]_vars

\* C14: a sweep never stops or removes a record whose isReady is false, however long
\* the start that owns it has been probing or opening its tunnel.
C14_SweepSparesUnready ==
  [][last'.op = "sweep" =>
       \A a \in AppIds :
         (HasRecord(a) /\ ~heap[instances[a]].isReady)
           => /\ instances'[a] = instances[a]
              /\ procs'[instances[a]] = procs[instances[a]]]_vars

\* C15: stop sends the graceful signal at once; when the grace window ends, a child
\* that has not exited is sent the forced signal, and a child that has exited is not.
C15_ForcedAfterGrace ==
  [][\A o \in Objs :
       /\ (o \in timers' \ timers) => (procs'[o].state # "running" \/ procs'[o].sigterm)
       /\ (o \in timers \ timers' /\ ~exited') =>
            /\ procs[o].state = "running" => procs'[o].sigkill
            /\ procs[o].state # "running" => ~procs'[o].sigkill]_vars

\* the order of the stages of one start, as pairs of consecutive positions
StageOrder ==
  {<<"idle", "rm">>, <<"rm", "write">>, <<"write", "install">>, <<"install", "probe">>,
   <<"probe", "tunnel">>}

\* C16: the stages of a start run in the order provision, install, launch, probe,
\* tunnel, mark ready, each only after the one before succeeded: no child is launched
\* when provisioning or install failed, no tunnel is opened unless the probe answered,
\* and isReady is set only with the URL of the tunnel just opened.
C16_StagesInOrder ==
  [][/\ \A r \in Reqs :
          /\ (req'[r].pc # req[r].pc /\ req'[r].pc # "idle")
                => <<req[r].pc, req'[r].pc>> \in StageOrder
          /\ (req[r].pc \in {"rm", "write", "install"} /\ req'[r].pc = "idle" /\ ~exited')
                => /\ last'.op = "start" /\ ~last'.success
                   /\ procs' = procs
                   /\ instances' = instances
                   /\ tunnels' = tunnels
          /\ (req[r].pc = "probe" /\ req'[r].pc = "tunnel") => Serving(req[r].port)
          /\ (req[r].pc = "probe" /\ req'[r].pc = "idle" /\ ~exited')
                => /\ last'.op = "start" /\ ~last'.success
                   /\ tunnels' \subseteq tunnels
     /\ \A o \in Objs :
          /\ (procs[o].state = "none" /\ procs'[o].state = "running")
                => \E r \in Reqs : /\ req[r].pc = "install"
                                   /\ req'[r].pc = "probe"
                                   /\ req'[r].obj = o
          /\ (~heap[o].isReady /\ heap'[o].isReady)
                => \E r \in Reqs : /\ req[r].pc = "tunnel"
                                   /\ req[r].obj = o
                                   /\ heap'[o].tunnelUrl \in tunnels' \ tunnels
     /\ (tunnels' \ tunnels # {})
          => \E r \in Reqs : req[r].pc = "tunnel" /\ req'[r].pc = "idle"]_vars

\* C16 witness: the only start so far has failed in npm install, after its workspace
\* was written, and no child process was ever launched.
C16_Witness ==
  /\ nalloc = 1
  /\ last.op = "start"
  /\ ~last.success
  /\ last.error = "npm install failed"
  /\ workspace[last.appId] = [exists |-> TRUE, files |-> DemoFiles]
  /\ \A o \in Objs : procs[o].state = "none"
  /\ tunnels = {}

\* C17: every record with isReady true has a tunnelUrl, and its bundleUrl is that URL
\* followed by the fixed path and query; every record without tunnelUrl has isReady
\* false; and isReady is set only by a start that is past its probe, in its tunnel stage.
C17_ReadyHasTunnel ==
  /\ [](\A a \in AppIds :
          HasRecord(a) =>
            /\ heap[instances[a]].isReady =>
                 /\ heap[instances[a]].tunnelUrl # ""
                 /\ heap[instances[a]].bundleUrl =
                      heap[instances[a]].tunnelUrl
                        \o "/index.bundle?platform=ios&dev=true&minify=false"
            /\ heap[instances[a]].tunnelUrl = "" => ~heap[instances[a]].isReady)
  /\ [][\A o \in Objs :
          (~heap[o].isReady /\ heap'[o].isReady)
            => \E r \in Reqs : req[r].pc = "tunnel" /\ req[r].obj = o]_vars

\* C17 witness: one appId has a ready record with its tunnel open while the other's
\* record is still without tunnelUrl.
C17_Witness ==
  \E a, b \in AppIds :
    /\ ReadyRecord(a)
    /\ heap[instances[a]].tunnelUrl \in tunnels
    /\ HasRecord(b)
    /\ heap[instances[b]].tunnelUrl = ""
    /\ ~heap[instances[b]].isReady

\* C18: stop of an appId with a record signals that record's process, asks to close its
\* tunnel when it has one and removes that appId's entry only; the workspace directory,
\* the port cursor, the calls in flight and every other appId's record, process and
\* tunnel stay as they were.
C18_StopFrame ==
  [][\A a \in AppIds :
       (last'.op = "stop" /\ last'.appId = a /\ HasRecord(a))
       => /\ procs'[instances[a]].state # "running" \/ procs'[instances[a]].sigterm
          /\ tunnels' = tunnels \ {heap[instances[a]].tunnelUrl}
          /\ instances' = [instances EXCEPT ![a] = NoObj]
          /\ \A b \in AppIds \ {a} :
               HasRecord(b) => /\ heap'[instances[b]] = heap[instances[b]]
                               /\ procs'[instances[b]] = procs[instances[b]]
          /\ UNCHANGED <<workspace, currentPortIndex, nalloc, req, now, cleanupInterval>>]_vars

\* C18 witness: a stop has just removed a ready record: its tunnel is closed and its
\* child signalled, its workspace is still there, and the other appId's record is
\* still ready with its tunnel open.
C18_Witness ==
  /\ last.op = "stop"
  /\ last.success
  /\ ~HasRecord(last.appId)
  /\ workspace[last.appId].exists
  /\ \E o \in timers : /\ heap[o].appId = last.appId
                        /\ heap[o].isReady
                        /\ heap[o].tunnelUrl \notin tunnels
                        /\ procs[o].sigterm
  /\ \E b \in AppIds : ReadyRecord(b) /\ heap[instances[b]].tunnelUrl \in tunnels
  /\ currentPortIndex = 2

\* C19: with concurrent starts for pairwise different appIds on a fresh service, no
\* more than the pool holds, the k-th request is given the k-th port of the pool, so
\* the ports given are pairwise distinct and the cursor counts the allocations; and a
\* start that returns success leaves its own record registered under its appId, with
\* the port it was given.
C19_ParallelStarts ==
  /\ [](/\ currentPortIndex = nalloc
        /\ \A r \in Reqs : req[r].pc # "idle" =>
             \E k \in 1..nalloc : AppSeq[k] = req[r].appId /\ req[r].port = 8080 + k
        /\ \A r, q \in Reqs :
             (r # q /\ req[r].pc # "idle" /\ req[q].pc # "idle") => req[r].port # req[q].port
        /\ \A a \in AppIds : HasRecord(a) =>
             /\ heap[instances[a]].appId = a
             /\ \E k \in 1..nalloc : AppSeq[k] = a /\ heap[instances[a]].port = 8080 + k)
  /\ [][\A r \in Reqs :
          (req[r].pc # "idle" /\ req'[r].pc = "idle" /\ last'.success)
          => /\ last'.op = "start"
             /\ last'.appId = req[r].appId
             /\ last'.port = req[r].port
             /\ instances'[req[r].appId] = req[r].obj
             /\ req[r].obj # NoObj
             /\ heap'[req[r].obj].port = req[r].port
             /\ heap'[req[r].obj].isReady]_vars

\* C19 witness: the second start has succeeded while the first, which was given the
\* port before it, is still waiting for its tunnel.
C19_Witness ==
  /\ last.op = "start"
  /\ last.success
  /\ last.appId = "app-2"
  /\ last.port = 8082
  /\ ReadyRecord("app-2")
  /\ \E r \in Reqs : /\ req[r].pc = "tunnel"
                      /\ req[r].appId = "app-1"
                      /\ req[r].port = 8081
                      /\ instances["app-1"] = req[r].obj

\* C20: waitForMetroReady always returns; it returns true at an attempt whose response
\* is ok, without another attempt, and false after exactly maxAttempts attempts none of
\* which was ok; a failed attempt only moves the loop to the next attempt.
C20_ProbeLoop ==
  /\ [](\A r \in Reqs :
          IF req[r].pc = "probe" THEN req[r].attempt \in 1..(MaxAttempts + 1)
          ELSE req[r].attempt = 0)
  /\ [][\A r \in Reqs :
          /\ (req[r].pc = "probe" /\ req'[r].pc = "tunnel")
                => /\ req[r].attempt <= MaxAttempts
                   /\ Serving(req[r].port)
                   /\ req'[r] = [req[r] EXCEPT !.pc = "tunnel", !.attempt = 0]
          /\ (req[r].pc = "probe" /\ req'[r].pc = "probe" /\ req'[r] # req[r])
                => /\ req[r].attempt <= MaxAttempts
                   /\ req'[r] = [req[r] EXCEPT !.attempt = @ + 1]
                   /\ UNCHANGED <<instances, heap, procs, timers, tunnels, workspace>>
          /\ (req[r].pc = "probe" /\ req'[r].pc = "idle" /\ ~exited')
                => /\ req[r].attempt = MaxAttempts + 1
                   /\ last' = Resp("start", req[r].appId, FALSE, "", "", 0,
                                   "Metro failed to start within timeout", {})]_vars
  /\ \A r \in Reqs : (req[r].pc = "probe") ~> (req[r].pc # "probe")

\* C20 witness: a start has just failed on the readiness probe, and the child it had
\* launched, which never answered, was still running when it was signalled.
C20_Witness ==
  /\ last.op = "start"
  /\ ~last.success
  /\ last.error = "Metro failed to start within timeout"
  /\ \A r \in Reqs : req[r].pc = "idle"
  /\ \E o \in timers : /\ heap[o].appId = last.appId
                        /\ procs[o].state = "running"
                        /\ procs[o].sigterm

\* C21: a sweep removes every record it finds idle and returns normally, with the
\* reaper still armed, also when signalling the process or closing the tunnel of one
\* of them fails.
C21_SweepSurvivesFailures ==
  [][last'.op = "sweep" =>
       /\ \A a \in AppIds :
            (HasRecord(a) /\ now - heap[instances[a]].lastAccess > 15 * 60 * 1000)
              => (a \in last'.entries /\ instances'[a] = NoObj)
       /\ last'.success
       /\ cleanupInterval'
       /\ ~exited']_vars

\* C21 witness: a sweep has just collected both appIds; the child of one was signalled,
\* the child of the other, whose kill threw, still runs unsignalled and without timer.
C21_Witness ==
  /\ last.op = "sweep"
  /\ last.entries = AppIds
  /\ \A a \in AppIds : ~HasRecord(a)
  /\ \E o \in timers : procs[o].state = "running" /\ procs[o].sigterm
  /\ \E o \in Objs \ timers : procs[o].state = "running" /\ ~procs[o].sigterm

\* C22: when a start returns success with tunnelUrl u and port p, the registry then
\* holds a record for that appId that is ready, has tunnelUrl u and port p, and whose
\* process has not been sent a termination signal.
C22_SuccessMeansRegistered ==
  [][(last'.op = "start" /\ last'.success) =>
       /\ instances'[last'.appId] # NoObj
       /\ heap'[instances'[last'.appId]].isReady
       /\ heap'[instances'[last'.appId]].tunnelUrl = last'.tunnelUrl
       /\ heap'[instances'[last'.appId]].port = last'.port
       /\ ~procs'[instances'[last'.appId]].sigterm
       /\ ~procs'[instances'[last'.appId]].sigkill]_vars

\* C23: in every reachable state every tunnel that was opened and not asked to close
\* is the tunnelUrl of a record of the registry.
C23_NoTunnelLeak ==
  \A u \in tunnels : \E a \in AppIds : HasRecord(a) /\ heap[instances[a]].tunnelUrl = u

====
